---- MODULE Spec2Model ----
(***************************************************************************)
(* Verification model of the Leadership-Lab curriculum page                *)
(* (src/src/pages/ArticleDetail.tsx, second module: Curriculum,            *)
(* SessionCard, CognizanceGridSection, buildRevealItems).                  *)
(*                                                                         *)
(* Two specifications share the variables:                                 *)
(*   Spec       the page as a state machine driven by user input events    *)
(*   SpecBuild  the pure function buildRevealItems applied to every        *)
(*              session of a bounded universe                              *)
(*                                                                         *)
(* Conventions                                                             *)
(*   - an optional field (`x?: T`) is <<>> when absent and <<v>> when      *)
(*     present, so that "absent" and "present but empty" differ;           *)
(*   - a text is a sequence of tokens, the empty string is <<>>;           *)
(*   - positions in the source are 0-based, TLA+ sequences are 1-based:    *)
(*     item idx of the source is revealItems[idx + 1].                     *)
(*   - React (19, createRoot) flushes the state updates of a discrete      *)
(*     event, the re-render and the effects of that render before the next *)
(*     event is dispatched, so one action is one event handled to the end. *)
(***************************************************************************)
EXTENDS Integers, Sequences, FiniteSets, TLC

VARIABLES
    loading,            \* Curriculum.loading
    sessions,           \* Curriculum.sessions
    filter,             \* Curriculum.filter
    expandedSessions,   \* Curriculum.expandedSessions
    step,               \* SessionCard.step of every mounted card (DOMAIN = mounted cards)
    listeners,          \* cards whose keydown handler is attached to window
    activeSection,      \* CognizanceGridSection.activeSection, "unmounted" when no instance exists
    timers,             \* pending setTimeout callbacks of the mounted navigator
    scrolls,            \* scrollIntoView requests made so far
    transitions,        \* openSection / goBackToGrid calls made so far
    last,               \* the last input event: [op, arg], the step of every card
                        \* before it (from) and the op of the event before it (prev)
    session,            \* SpecBuild: the argument of buildRevealItems
    revealItems,        \* SpecBuild: its result
    pc,                 \* SpecBuild: "start" | "built"; "ui" under Spec
    renderedStep,       \* SpecBurst: the step each card's last render closed over
    burst,              \* SpecBurst: events handled since the last render
    grouped,            \* SpecDisplay: SessionContentDisplay's grouped discussion points
    cardView,           \* SpecDisplay: what the fully revealed SessionCard shows, item by item
    displayView         \* SpecDisplay: what SessionContentDisplay shows

vars == <<loading, sessions, filter, expandedSessions, step, listeners,
          activeSection, timers, scrolls, transitions, last,
          session, revealItems, pc,
          renderedStep, burst, grouped, cardView, displayView>>

uiVars == <<loading, sessions, filter, expandedSessions, step, listeners,
            activeSection, timers, scrolls, transitions, last>>

buildVars == <<session, revealItems, pc>>

burstVars == <<renderedStep, burst>>

displayVars == <<grouped, cardView, displayView>>

----------------------------------------------------------------------------
(* Bounds                                                                  *)

MaxPoints == 2

MaxIntros == 2

MaxResources == 1

MaxArticles == 1

MaxTransitions == 2

MaxBurst == 2

MaxGroupPoints == 4

MaxSessions == 3

----------------------------------------------------------------------------
(* Data shapes (src/unnamed/part_003: Session, Introspection,              *)
(* SessionResource)                                                        *)

Absent == <<>>

Some(v) == <<v>>

SeqsUpTo(S, n) == UNION {[1..k -> S] : k \in 0..n}

PointA == <<"Point A">>

SubOne == <<"1", ".", " ", "Sub one">>

VideoBreakClip == <<"Video Break:", " ", "Clip">>

PointTexts == {PointA, SubOne, VideoBreakClip}

IntroA == [title |-> "Intro A", prompts |-> <<"prompt">>]

IntroB == [title |-> "Intro B", prompts |-> <<>>]

ResourceClip == [title |-> <<"Clip">>, url |-> "https://clip", source |-> Absent]

ResourceOther == [title |-> <<"Other">>, url |-> "https://other", source |-> Some("src")]

FourC == {"Communication", "Customer", "Cognizance", "Charisma"}

Session(id, day, fourC, coreTopics, articles, hasContent, emptyReason, description, discussionPoints, introspections, resources) ==
    [id |-> id, day |-> day, fourC |-> fourC, coreTopics |-> coreTopics,
     articles |-> articles, hasContent |-> hasContent,
     emptyReason |-> emptyReason, description |-> description,
     discussionPoints |-> discussionPoints,
     introspections |-> introspections, resources |-> resources]

\* Every session over the bounded field domains.  coreTopics is declared
\* required, but the records are parsed from JSON unchecked, so the field can
\* be missing at run time.
SessionUniverse ==
    { Session("s", 1, "Communication", ct, ar, hc[1], hc[2], d, dp, it, rs) :
        ct \in {Absent, Some(<<>>), Some(<<"Topic">>)},
        ar \in SeqsUpTo({1, 2}, MaxArticles),
        hc \in {<<TRUE, Absent>>, <<FALSE, Absent>>, <<FALSE, Some("reason")>>},
        d  \in {Absent, Some(<<>>), Some(<<"Desc">>)},
        dp \in {Absent} \cup {Some(l) : l \in SeqsUpTo(PointTexts, MaxPoints)},
        it \in {Absent} \cup {Some(l) : l \in SeqsUpTo({IntroA, IntroB}, MaxIntros)},
        rs \in {Absent} \cup {Some(l) : l \in SeqsUpTo({ResourceClip, ResourceOther}, MaxResources)} }

----------------------------------------------------------------------------
(* buildRevealItems                                                        *)

\* JavaScript truthiness of an optional string: defined and not "".
Truthy(opt) == opt # Absent /\ opt[1] # <<>>

descriptionItems(s) ==
    IF Truthy(s.description)
    THEN << [kind |-> "description", text |-> s.description[1]] >>
    ELSE <<>>

\* mutant: the item is pushed only for a non-empty topic list (the test
\* SessionContentDisplay applies)
coreTopicsItems_ifNonEmpty(s) ==
    IF s.coreTopics # Absent /\ Len(s.coreTopics[1]) > 0
    THEN << [kind |-> "coreTopics", topics |-> s.coreTopics] >>
    ELSE <<>>

coreTopicsItems(s) == << [kind |-> "coreTopics", topics |-> s.coreTopics] >>

\* mutant: the items are numbered from 1
discussionPointItems_oneBased(s) ==
    IF s.discussionPoints # Absent
    THEN LET dps == s.discussionPoints[1]
         IN  [i \in 1..Len(dps) |->
                [kind |-> "discussionPoint", text |-> dps[i],
                 index |-> i, total |-> Len(dps)]]
    ELSE <<>>

discussionPointItems(s) ==
    IF s.discussionPoints # Absent
    THEN LET dps == s.discussionPoints[1]
         IN  [i \in 1..Len(dps) |->
                [kind |-> "discussionPoint", text |-> dps[i],
                 index |-> i - 1, total |-> Len(dps)]]
    ELSE <<>>

introspectionItems(s) ==
    IF s.introspections # Absent
    THEN LET its == s.introspections[1]
         IN  [i \in 1..Len(its) |-> [kind |-> "introspection", data |-> its[i]]]
    ELSE <<>>

\* mutant: the `length > 0` test is dropped
resourcesItems_noLengthTest(s) ==
    IF s.resources # Absent
    THEN << [kind |-> "resources", data |-> s.resources[1]] >>
    ELSE <<>>

resourcesItems(s) ==
    IF s.resources # Absent /\ Len(s.resources[1]) > 0
    THEN << [kind |-> "resources", data |-> s.resources[1]] >>
    ELSE <<>>

articlesItems(s) ==
    IF Len(s.articles) > 0 THEN << [kind |-> "articles"] >> ELSE <<>>

\* mutant: the introspections are pushed before the discussion points
buildRevealItems_introspectionsFirst(s) ==
    descriptionItems(s) \o coreTopicsItems(s) \o introspectionItems(s)
        \o discussionPointItems(s) \o resourcesItems(s) \o articlesItems(s)

\* mutant: the items depend on page state, a collapsed card has none
buildRevealItems_noneWhileCollapsed(s) ==
    IF s.id \in expandedSessions
    THEN descriptionItems(s) \o coreTopicsItems(s) \o discussionPointItems(s)
            \o introspectionItems(s) \o resourcesItems(s) \o articlesItems(s)
    ELSE <<>>

buildRevealItems(s) ==
    descriptionItems(s) \o coreTopicsItems(s) \o discussionPointItems(s)
        \o introspectionItems(s) \o resourcesItems(s) \o articlesItems(s)

----------------------------------------------------------------------------
(* SpecBuild: buildRevealItems on every session of the universe            *)

NoSession == Session("none", 1, "Communication", Some(<<>>), <<>>, FALSE,
                     Absent, Absent, Absent, Absent, Absent)

UiIdle ==
    /\ loading = TRUE
    /\ sessions = <<>>
    /\ filter = "All"
    /\ expandedSessions = {}
    /\ step = [id \in {} |-> 0]
    /\ listeners = {}
    /\ activeSection = "unmounted"
    /\ timers = 0
    /\ scrolls = 0
    /\ transitions = 0
    /\ last = [op |-> "init", arg |-> "", from |-> [id \in {} |-> 0], prev |-> "init",
               toggledOdd |-> {}]

BurstIdle ==
    /\ renderedStep = [id \in {} |-> 0]
    /\ burst = 0

DisplayIdle ==
    /\ grouped = <<>>
    /\ cardView = <<>>
    /\ displayView = <<>>

InitBuild ==
    /\ UiIdle
    /\ BurstIdle
    /\ DisplayIdle
    /\ session \in SessionUniverse
    /\ revealItems = <<>>
    /\ pc = "start"

Build ==
    /\ pc = "start"
    /\ revealItems' = buildRevealItems(session)
    /\ pc' = "built"
    /\ UNCHANGED <<session, uiVars, burstVars, displayVars>>

NextBuild == Build

SpecBuild == InitBuild /\ [][NextBuild]_vars

----------------------------------------------------------------------------
(* The curriculum page: loaded data                                        *)

CommSession ==
    Session("comm-1", 1, "Communication", Some(<<"Topic">>), <<>>, FALSE,
            Some("reason"), Some(<<"Desc">>), Some(<<PointA>>), Absent, Absent)

CustSession ==
    Session("cust-1", 2, "Customer", Some(<<>>), <<>>, FALSE,
            Absent, Absent, Absent, Absent, Absent)

CultureSession ==
    Session("culture", 1, "Cognizance", Some(<<"Topic">>), <<1>>, TRUE,
            Absent, Absent, Absent, Absent, Absent)

\* the contents /data/sessions.json may have
Catalogues ==
    { <<CommSession, CultureSession, CustSession>>, <<CommSession, CustSession>> }

Filters == {"All", "Communication", "Customer", "Cognizance", "Charisma"}

Keys == {"ArrowRight", " ", "ArrowLeft", "Enter"}

Clusters == {"culture", "goals-ack", "colleagues-env", "next6", "budget",
             "politics", "network"}

CognizanceSection == {"grid"} \cup Clusters

\* mutant: the Network cell is missing
GRID_CELLS_noNetwork ==
    << [label |-> "Culture",       cluster |-> "culture"],
       [label |-> "Goals",         cluster |-> "goals-ack"],
       [label |-> "Environment",   cluster |-> "colleagues-env"],
       [label |-> "Development",   cluster |-> "next6"],
       [label |-> "Budget",        cluster |-> "budget"],
       [label |-> "Politics",      cluster |-> "politics"] >>

GRID_CELLS ==
    << [label |-> "Culture",       cluster |-> "culture"],
       [label |-> "Goals",         cluster |-> "goals-ack"],
       [label |-> "The ACK Model", cluster |-> "goals-ack"],
       [label |-> "Environment",   cluster |-> "colleagues-env"],
       [label |-> "Competition",   cluster |-> "colleagues-env"],
       [label |-> "Development",   cluster |-> "next6"],
       [label |-> "Strengths",     cluster |-> "next6"],
       [label |-> "Opportunities", cluster |-> "next6"],
       [label |-> "Colleagues",    cluster |-> "colleagues-env"],
       [label |-> "Budget",        cluster |-> "budget"],
       [label |-> "Career",        cluster |-> "next6"],
       [label |-> "Accolades",     cluster |-> "next6"],
       [label |-> "Mistakes",      cluster |-> "next6"],
       [label |-> "Politics",      cluster |-> "politics"],
       [label |-> "Network",       cluster |-> "network"] >>

----------------------------------------------------------------------------
(* Curriculum: what is rendered                                            *)

cognizanceSessions(ss) == SelectSeq(ss, LAMBDA s : s.fourC = "Cognizance")

nonCognizanceSessions(ss) == SelectSeq(ss, LAMBDA s : s.fourC # "Cognizance")

filteredNonCognizance(ss, f) ==
    IF f = "All"
    THEN nonCognizanceSessions(ss)
    ELSE SelectSeq(nonCognizanceSessions(ss), LAMBDA s : s.fourC = f)

showCognizanceGrid(f) == f = "All" \/ f = "Cognizance"

\* ids of the SessionCard instances of a render: the day-1 and the day-2 list
mountedCards(ld, ss, f) ==
    IF ld THEN {}
    ELSE LET shown == filteredNonCognizance(ss, f)
         IN  {shown[i].id : i \in {j \in 1..Len(shown) : shown[j].day = 1 \/ shown[j].day = 2}}

\* the SessionCard elements of a render in page order: the day-1 sessions
\* above the grid, the day-2 sessions below it
sessionCards(ss, f) ==
    SelectSeq(filteredNonCognizance(ss, f), LAMBDA s : s.day = 1)
        \o SelectSeq(filteredNonCognizance(ss, f), LAMBDA s : s.day = 2)

\* whether a CognizanceGridSection instance is rendered
gridMounted(ld, ss, f) ==
    ~ld /\ showCognizanceGrid(f) /\ Len(cognizanceSessions(ss)) > 0

sessionOf(id) == sessions[CHOOSE i \in 1..Len(sessions) : sessions[i].id = id]

totalSteps(id) == Len(buildRevealItems(sessionOf(id)))

\* mutant: > instead of >=
allRevealed_strict(id) == step[id] > totalSteps(id)

allRevealed(id) == step[id] >= totalSteps(id)

\* the navigation controls of an expanded card
backDisabled(id) == step[id] = 0

nextDisabled(id) == allRevealed(id)

showAllOffered(id) == ~allRevealed(id)

----------------------------------------------------------------------------
(* SessionCard: state transitions                                          *)

Min(a, b) == IF a < b THEN a ELSE b

Max(a, b) == IF a > b THEN a ELSE b

\* mutant: the `step < totalSteps` test is dropped
advance_unguarded(rendered, s, total) == s + 1

\* advance: `rendered` is the step the callback closed over, s the state the
\* updater receives
advance(rendered, s, total) == IF rendered < total THEN s + 1 ELSE s

\* mutant: Back returns to the start
goBack_toStart(rendered, s) == 0

goBack(rendered, s) == IF rendered > 0 THEN s - 1 ELSE s

\* mutant: Show all reveals one more item only
revealAll_oneStep(s, total) == IF s < total THEN s + 1 ELSE s

revealAll(s, total) == total

\* mutant: ArrowRight / Space add 1 without Math.min
handler_noCeiling(key, s, total) ==
    IF key = "ArrowRight" \/ key = " " THEN s + 1
    ELSE IF key = "ArrowLeft" THEN Max(s - 1, 0)
    ELSE s

\* mutant: ArrowLeft subtracts 1 without Math.max
handler_noFloor(key, s, total) ==
    IF key = "ArrowRight" \/ key = " " THEN Min(s + 1, total)
    ELSE IF key = "ArrowLeft" THEN s - 1
    ELSE s

\* mutant: Enter advances too
handler_enterAdvances(key, s, total) ==
    IF key = "ArrowRight" \/ key = " " \/ key = "Enter" THEN Min(s + 1, total)
    ELSE IF key = "ArrowLeft" THEN Max(s - 1, 0)
    ELSE s

\* the keydown handler's updater
handler(key, s, total) ==
    IF key = "ArrowRight" \/ key = " " THEN Min(s + 1, total)
    ELSE IF key = "ArrowLeft" THEN Max(s - 1, 0)
    ELSE s

\* mutant: the effect does not reset the step
resetEffect_keepsStep(wasMounted, wasExpanded, isExpanded, s) == s

\* the reset effect, deps [isExpanded]: it runs after the first render of an
\* instance and after every render in which isExpanded differs
resetEffect(wasMounted, wasExpanded, isExpanded, s) ==
    IF (~wasMounted \/ wasExpanded # isExpanded) /\ ~isExpanded THEN 0 ELSE s

\* mutant: the effect returns no cleanup, a handler once attached stays
keydownEffect_noCleanup(wasMounted, wasExpanded, isExpanded, wasAttached) ==
    IF ~wasMounted THEN isExpanded ELSE wasAttached \/ isExpanded

\* the keydown effect, deps [isExpanded, totalSteps]: its cleanup and its body
\* run when the deps differ, the cleanup alone on unmount; the result is
\* whether the instance's handler is attached afterwards
keydownEffect(wasMounted, wasExpanded, isExpanded, wasAttached) ==
    IF ~wasMounted \/ wasExpanded # isExpanded THEN isExpanded ELSE wasAttached

\* renderItem: the three flags and what is shown for item idx (0-based) at
\* step st.  The markup switches on isCurrent only, so a visible item that is
\* not current gets the dimmed classes.
isCurrent(idx, st) == idx = st - 1

isPast(idx, st) == idx < st - 1

\* mutant: off by one, the item after the current one is shown too
isVisible_offByOne(idx, st) == idx <= st

isVisible(idx, st) == idx < st

renderItem(idx, st) ==
    IF ~isVisible(idx, st) THEN "invisible"
    ELSE IF isCurrent(idx, st) THEN "current"
    ELSE "dimmed"

\* Commit of a render of Curriculum with the given state: the instances that
\* stay keep their state, new instances start from useState(0), then the
\* effects run.
\* mutant: a new instance starts from useState(1)
stepAfterRender_startsAtOne(ld, ss, f, expanded) ==
    [id \in mountedCards(ld, ss, f) |->
        resetEffect(id \in DOMAIN step, id \in expandedSessions, id \in expanded,
                    IF id \in DOMAIN step THEN step[id] ELSE 1)]

stepAfterRender(ld, ss, f, expanded) ==
    [id \in mountedCards(ld, ss, f) |->
        resetEffect(id \in DOMAIN step, id \in expandedSessions, id \in expanded,
                    IF id \in DOMAIN step THEN step[id] ELSE 0)]

listenersAfterRender(ld, ss, f, expanded) ==
    {id \in mountedCards(ld, ss, f) :
        keydownEffect(id \in DOMAIN step, id \in expandedSessions, id \in expanded,
                      id \in listeners)}

activeSectionAfterRender(ld, ss, f) ==
    IF gridMounted(ld, ss, f)
    THEN IF activeSection = "unmounted" THEN "grid" ELSE activeSection
    ELSE "unmounted"

\* timeouts of an instance that is unmounted find containerRef.current null
timersAfterRender(ld, ss, f) == IF gridMounted(ld, ss, f) THEN timers ELSE 0

----------------------------------------------------------------------------
(* CognizanceGridSection: state transitions                                *)

\* mutant: every cell opens the first section
openSection_alwaysCulture(section) == "culture"

openSection(section) == section

\* mutant: the handler leaves activeSection as it is
goBackToGrid_stays == activeSection

goBackToGrid == "grid"

\* getSession(id) of CognizanceGridSection finds a session
hasSession(ss, id) ==
    \E i \in 1..Len(cognizanceSessions(ss)) : cognizanceSessions(ss)[i].id = id

\* the body of a section view, which ends with a BackToGridButton, is
\* rendered: for culture, budget and politics only when their session exists
sectionBodyRendered(section, ss) ==
    CASE section = "culture"  -> hasSession(ss, "culture")
      [] section = "budget"   -> hasSession(ss, "budget")
      [] section = "politics" -> hasSession(ss, "politics")
      [] OTHER                -> section \in Clusters

\* mutant: the breadcrumb is rendered inside the section bodies
backControls_bodyOnly(section, ss) ==
    IF section \notin Clusters THEN {}
    ELSE IF sectionBodyRendered(section, ss) THEN {"breadcrumb", "BackToGridButton"} ELSE {}

\* the controls of the rendered view that call goBackToGrid
backControls(section, ss) ==
    IF section \notin Clusters THEN {}
    ELSE {"breadcrumb"} \cup
         (IF sectionBodyRendered(section, ss) THEN {"BackToGridButton"} ELSE {})

----------------------------------------------------------------------------
(* Spec: the actions, one per input event                                  *)

Event(op, arg) ==
    [op |-> op, arg |-> arg, from |-> step, prev |-> last.op,
     toggledOdd |-> IF op # "toggleSession" THEN last.toggledOdd
                    ELSE IF arg \in last.toggledOdd THEN last.toggledOdd \ {arg}
                    ELSE last.toggledOdd \cup {arg}]

Init ==
    /\ UiIdle
    /\ BurstIdle
    /\ DisplayIdle
    /\ session = NoSession
    /\ revealItems = <<>>
    /\ pc = "ui"

\* Curriculum's load effect: Promise.all resolves and the three updates are
\* rendered together
Load(data) ==
    /\ loading
    /\ loading' = FALSE
    /\ sessions' = data
    /\ step' = stepAfterRender(FALSE, data, filter, expandedSessions)
    /\ listeners' = listenersAfterRender(FALSE, data, filter, expandedSessions)
    /\ activeSection' = activeSectionAfterRender(FALSE, data, filter)
    /\ timers' = timersAfterRender(FALSE, data, filter)
    /\ last' = Event("load", "")
    /\ UNCHANGED <<filter, expandedSessions, scrolls, transitions, buildVars, burstVars, displayVars>>

\* mutant: an accordion, expanding a card collapses the others
toggleSession_accordion(sessionId) ==
    /\ sessionId \in DOMAIN step
    /\ LET newExpanded == IF sessionId \in expandedSessions THEN {} ELSE {sessionId}
       IN  /\ expandedSessions' = newExpanded
           /\ step' = stepAfterRender(loading, sessions, filter, newExpanded)
           /\ listeners' = listenersAfterRender(loading, sessions, filter, newExpanded)
    /\ last' = Event("toggleSession", sessionId)
    /\ UNCHANGED <<loading, sessions, filter, activeSection, timers, scrolls,
                   transitions, buildVars, burstVars, displayVars>>

\* click on a card's header
toggleSession(sessionId) ==
    /\ sessionId \in DOMAIN step
    /\ LET newExpanded == IF sessionId \in expandedSessions
                          THEN expandedSessions \ {sessionId}
                          ELSE expandedSessions \cup {sessionId}
       IN  /\ expandedSessions' = newExpanded
           /\ step' = stepAfterRender(loading, sessions, filter, newExpanded)
           /\ listeners' = listenersAfterRender(loading, sessions, filter, newExpanded)
    /\ last' = Event("toggleSession", sessionId)
    /\ UNCHANGED <<loading, sessions, filter, activeSection, timers, scrolls,
                   transitions, buildVars, burstVars, displayVars>>

\* click on a filter button
setFilter(cat) ==
    /\ ~loading
    /\ filter' = cat
    /\ step' = stepAfterRender(loading, sessions, cat, expandedSessions)
    /\ listeners' = listenersAfterRender(loading, sessions, cat, expandedSessions)
    /\ activeSection' = activeSectionAfterRender(loading, sessions, cat)
    /\ timers' = timersAfterRender(loading, sessions, cat)
    /\ last' = Event("setFilter", cat)
    /\ UNCHANGED <<loading, sessions, expandedSessions, scrolls, transitions,
                   buildVars, burstVars, displayVars>>

CardUnchanged == UNCHANGED <<loading, sessions, filter, expandedSessions,
                             listeners, activeSection, timers, scrolls,
                             transitions, buildVars, burstVars, displayVars>>

\* click on the content area of an expanded card
ClickContent(id) ==
    /\ id \in DOMAIN step /\ id \in expandedSessions
    /\ step' = [step EXCEPT ![id] = advance(step[id], step[id], totalSteps(id))]
    /\ last' = Event("clickContent", id)
    /\ CardUnchanged

\* click on Start / Next, disabled when allRevealed
ClickNext(id) ==
    /\ id \in DOMAIN step /\ id \in expandedSessions
    /\ ~allRevealed(id)
    /\ step' = [step EXCEPT ![id] = advance(step[id], step[id], totalSteps(id))]
    /\ last' = Event("clickNext", id)
    /\ CardUnchanged

\* click on Back, disabled when step = 0
ClickBack(id) ==
    /\ id \in DOMAIN step /\ id \in expandedSessions
    /\ step[id] # 0
    /\ step' = [step EXCEPT ![id] = goBack(step[id], step[id])]
    /\ last' = Event("clickBack", id)
    /\ CardUnchanged

\* click on Show all, rendered unless allRevealed
ClickShowAll(id) ==
    /\ id \in DOMAIN step /\ id \in expandedSessions
    /\ ~allRevealed(id)
    /\ step' = [step EXCEPT ![id] = revealAll(step[id], totalSteps(id))]
    /\ last' = Event("clickShowAll", id)
    /\ CardUnchanged

\* a key press: window dispatches it to every attached handler
KeyDown(key) ==
    /\ step' = [id \in DOMAIN step |->
                  IF id \in listeners THEN handler(key, step[id], totalSteps(id))
                  ELSE step[id]]
    /\ last' = Event("keydown", key)
    /\ CardUnchanged

\* mutant: the cells are rendered in the section views too
ClickCell_anySection(idx) ==
    /\ activeSection \in CognizanceSection
    /\ transitions < MaxTransitions
    /\ activeSection' = openSection(GRID_CELLS[idx].cluster)
    /\ timers' = timers + 1
    /\ transitions' = transitions + 1
    /\ last' = Event("openSection", GRID_CELLS[idx].label)
    /\ UNCHANGED <<loading, sessions, filter, expandedSessions, step, listeners,
                   scrolls, buildVars, burstVars, displayVars>>

\* click on a cell of the grid view
ClickCell(idx) ==
    /\ activeSection = "grid"
    /\ transitions < MaxTransitions
    /\ activeSection' = openSection(GRID_CELLS[idx].cluster)
    /\ timers' = timers + 1
    /\ transitions' = transitions + 1
    /\ last' = Event("openSection", GRID_CELLS[idx].label)
    /\ UNCHANGED <<loading, sessions, filter, expandedSessions, step, listeners,
                   scrolls, buildVars, burstVars, displayVars>>

\* click on the breadcrumb or the Back to Cognition Grid button of a section
ClickBackToGrid ==
    /\ activeSection \in Clusters
    /\ backControls(activeSection, sessions) # {}
    /\ transitions < MaxTransitions
    /\ activeSection' = goBackToGrid
    /\ timers' = timers + 1
    /\ transitions' = transitions + 1
    /\ last' = Event("goBackToGrid", "")
    /\ UNCHANGED <<loading, sessions, filter, expandedSessions, step, listeners,
                   scrolls, buildVars, burstVars, displayVars>>

\* mutant: setInterval instead of setTimeout, the callback stays scheduled
TimerFires_interval ==
    /\ timers > 0
    /\ scrolls < MaxTransitions + 1
    /\ timers' = timers
    /\ scrolls' = scrolls + 1
    /\ UNCHANGED <<loading, sessions, filter, expandedSessions, step, listeners,
                   activeSection, transitions, last, buildVars, burstVars, displayVars>>

\* a timeout of the mounted navigator expires
TimerFires ==
    /\ timers > 0
    /\ timers' = timers - 1
    /\ scrolls' = scrolls + 1
    /\ UNCHANGED <<loading, sessions, filter, expandedSessions, step, listeners,
                   activeSection, transitions, last, buildVars, burstVars, displayVars>>

Next ==
    \/ \E data \in Catalogues : Load(data)
    \/ \E id \in DOMAIN step : toggleSession(id)
    \/ \E cat \in Filters : setFilter(cat)
    \/ \E id \in DOMAIN step : ClickContent(id)
    \/ \E id \in DOMAIN step : ClickNext(id)
    \/ \E id \in DOMAIN step : ClickBack(id)
    \/ \E id \in DOMAIN step : ClickShowAll(id)
    \/ \E key \in Keys : KeyDown(key)
    \/ \E idx \in 1..Len(GRID_CELLS) : ClickCell(idx)
    \/ ClickBackToGrid
    \/ TimerFires

Spec == Init /\ [][Next]_vars

----------------------------------------------------------------------------
(* SpecBurst: input events dispatched back-to-back within one task.  React  *)
(* renders a discrete update in a microtask after the event, so events      *)
(* dispatched without returning to the event loop in between (el.click()    *)
(* twice, dispatchEvent in a loop) are handled by the callbacks and the DOM *)
(* of the last render: advance and goBack test the step they closed over,   *)
(* the buttons keep the disabled state they were rendered with.  The page   *)
(* starts loaded, unfiltered, with some cards expanded and every step at 0. *)

InitBurst ==
    /\ \E data \in Catalogues :
        \E expanded \in (SUBSET mountedCards(FALSE, data, "All")) \ {{}} :
            /\ sessions = data
            /\ expandedSessions = expanded
            /\ listeners = expanded
            /\ step = [id \in mountedCards(FALSE, data, "All") |-> 0]
            /\ activeSection = IF gridMounted(FALSE, data, "All") THEN "grid" ELSE "unmounted"
    /\ loading = FALSE
    /\ filter = "All"
    /\ timers = 0
    /\ scrolls = 0
    /\ transitions = 0
    /\ last = [op |-> "init", arg |-> "", from |-> [id \in {} |-> 0], prev |-> "init",
               toggledOdd |-> {}]
    /\ session = NoSession
    /\ revealItems = <<>>
    /\ pc = "burst"
    /\ renderedStep = step
    /\ burst = 0
    /\ DisplayIdle

BurstUnchanged == UNCHANGED <<loading, sessions, filter, expandedSessions,
                              listeners, activeSection, timers, scrolls,
                              transitions, last, buildVars, renderedStep, displayVars>>

\* click on the content area, handled by the advance of the last render
BurstClickContent(id) ==
    /\ burst < MaxBurst
    /\ id \in DOMAIN step /\ id \in expandedSessions
    /\ step' = [step EXCEPT ![id] = advance(renderedStep[id], step[id], totalSteps(id))]
    /\ burst' = burst + 1
    /\ BurstUnchanged

\* click on Start / Next, which the last render left enabled
BurstClickNext(id) ==
    /\ burst < MaxBurst
    /\ id \in DOMAIN step /\ id \in expandedSessions
    /\ ~(renderedStep[id] >= totalSteps(id))
    /\ step' = [step EXCEPT ![id] = advance(renderedStep[id], step[id], totalSteps(id))]
    /\ burst' = burst + 1
    /\ BurstUnchanged

\* click on Back, which the last render left enabled
BurstClickBack(id) ==
    /\ burst < MaxBurst
    /\ id \in DOMAIN step /\ id \in expandedSessions
    /\ renderedStep[id] # 0
    /\ step' = [step EXCEPT ![id] = goBack(renderedStep[id], step[id])]
    /\ burst' = burst + 1
    /\ BurstUnchanged

\* click on Show all, which the last render put into the DOM
BurstClickShowAll(id) ==
    /\ burst < MaxBurst
    /\ id \in DOMAIN step /\ id \in expandedSessions
    /\ ~(renderedStep[id] >= totalSteps(id))
    /\ step' = [step EXCEPT ![id] = revealAll(step[id], totalSteps(id))]
    /\ burst' = burst + 1
    /\ BurstUnchanged

\* a key press: the handlers use the updater's argument, not the closure
BurstKeyDown(key) ==
    /\ burst < MaxBurst
    /\ step' = [id \in DOMAIN step |->
                  IF id \in listeners THEN handler(key, step[id], totalSteps(id))
                  ELSE step[id]]
    /\ burst' = burst + 1
    /\ BurstUnchanged

\* the microtask: React renders the queued updates, the callbacks and the
\* buttons are those of the new step
Render ==
    /\ burst > 0
    /\ renderedStep' = step
    /\ burst' = 0
    /\ UNCHANGED <<uiVars, buildVars, displayVars>>

NextBurst ==
    \/ \E id \in DOMAIN step :
            \/ BurstClickContent(id)
            \/ BurstClickNext(id)
            \/ BurstClickBack(id)
            \/ BurstClickShowAll(id)
    \/ \E key \in Keys : BurstKeyDown(key)
    \/ Render

SpecBurst == InitBurst /\ [][NextBurst]_vars

----------------------------------------------------------------------------
(* SpecList: the page with any sessions.json, under load and filter clicks  *)

\* a session of a third day: day is a number the loader does not check
LateSession ==
    Session("late-1", 3, "Communication", Some(<<"Topic">>), <<>>, FALSE,
            Absent, Absent, Absent, Absent, Absent)

\* every list of up to MaxSessions different sessions
ListCatalogues ==
    { ss \in SeqsUpTo({CommSession, CustSession, CultureSession, LateSession}, MaxSessions) :
        \A i, j \in 1..Len(ss) : i # j => ss[i] # ss[j] }

NextList ==
    \/ \E data \in ListCatalogues : Load(data)
    \/ \E cat \in Filters : setFilter(cat)

SpecList == Init /\ [][NextList]_vars

----------------------------------------------------------------------------
(* SpecDisplay: what a session looks like, in the fully revealed            *)
(* SessionCard and in SessionContentDisplay                                 *)

PointB == <<"Point B">>

SubTwo == <<"2", ".", " ", "Sub two">>

\* the marker directly followed by the title
VideoBreakNoSpace == <<"Video Break:", "Clip">>

GroupTexts == {PointA, PointB, SubOne, SubTwo, VideoBreakClip, VideoBreakNoSpace}

DisplayUniverse ==
    { Session("d", 1, "Cognizance", Some(<<"Topic">>), ar, hc, er, Absent, dp, Absent, rs) :
        ar \in {<<>>, <<1>>},
        hc \in BOOLEAN,
        er \in {Absent, Some(<<"reason">>)},
        dp \in {Absent} \cup {Some(l) : l \in SeqsUpTo(GroupTexts, MaxGroupPoints)},
        rs \in {Absent, Some(<<ResourceClip>>), Some(<<ResourceOther, ResourceClip>>)} }

Digits == {"0", "1", "2", "3", "4", "5", "6", "7", "8", "9"}

Whitespace == {" "}

\* String.prototype.startsWith
startsWith(text, prefix) ==
    Len(text) >= Len(prefix) /\ SubSeq(text, 1, Len(prefix)) = prefix

\* String.prototype.replace with a string pattern: the first occurrence only
replace(text, pattern, by) ==
    LET hits == {i \in 1..(Len(text) - Len(pattern) + 1) :
                    SubSeq(text, i, i + Len(pattern) - 1) = pattern}
    IN  IF hits = {} THEN text
        ELSE LET i == CHOOSE h \in hits : \A g \in hits : h <= g
             IN  SubSeq(text, 1, i - 1) \o by \o SubSeq(text, i + Len(pattern), Len(text))

\* length of the match of /^\d+\.\s/, 0 when the text does not match
numberedMatch(text) ==
    LET ks == {k \in 1..(Len(text) - 2) :
                  /\ \A j \in 1..k : text[j] \in Digits
                  /\ text[k + 1] = "."
                  /\ text[k + 2] \in Whitespace}
    IN  IF ks = {} THEN 0 ELSE (CHOOSE k \in ks : TRUE) + 2

\* /^\d+\.\s/.test(text)
isNumbered(text) == numberedMatch(text) > 0

\* text.replace(/^\d+\.\s/, '')
stripNumber(text) == SubSeq(text, numberedMatch(text) + 1, Len(text))

isVideoBreak(text) == startsWith(text, <<"Video Break:">>)

\* mutant: the marker alone is removed, the space after it stays
videoResource_markerOnly(s, text) ==
    IF ~isVideoBreak(text) \/ s.resources = Absent THEN Absent
    ELSE LET rs == s.resources[1]
             title == replace(text, <<"Video Break:">>, <<>>)
             hits == {i \in 1..Len(rs) : rs[i].title = title}
         IN  IF hits = {} THEN Absent
             ELSE Some(rs[CHOOSE h \in hits : \A g \in hits : h <= g])

\* session.resources?.find(r => r.title === text.replace('Video Break: ', ''))
videoResource(s, text) ==
    IF ~isVideoBreak(text) \/ s.resources = Absent THEN Absent
    ELSE LET rs == s.resources[1]
             title == replace(text, <<"Video Break:", " ">>, <<>>)
             hits == {i \in 1..Len(rs) : rs[i].title = title}
         IN  IF hits = {} THEN Absent
             ELSE Some(rs[CHOOSE h \in hits : \A g \in hits : h <= g])

\* SessionContentDisplay's list: the session's points, [] when undefined
discussionPoints(s) ==
    IF s.discussionPoints # Absent THEN s.discussionPoints[1] ELSE <<>>

\* mutant: if instead of while, at most one child is collected
lastChild_atMostOne(dps, i) ==
    IF i + 1 <= Len(dps) /\ isNumbered(dps[i + 1]) THEN i + 1 ELSE i

\* index of the last point the inner while loop consumes after point i
lastChild(dps, i) ==
    LET stops == {j \in (i + 1)..Len(dps) : ~isNumbered(dps[j])}
    IN  IF stops = {} THEN Len(dps)
        ELSE (CHOOSE j \in stops : \A k \in stops : j <= k) - 1

RECURSIVE groupFrom(_, _, _)
\* the grouping loop from index i (1-based) on
groupFrom(s, dps, i) ==
    IF i > Len(dps) THEN <<>>
    ELSE LET stop == lastChild(dps, i)
             item == [point |-> dps[i],
                      children |-> [k \in 1..(stop - i) |-> stripNumber(dps[i + k])],
                      isVideoBreak |-> isVideoBreak(dps[i]),
                      videoResource |-> videoResource(s, dps[i])]
         IN  <<item>> \o groupFrom(s, dps, stop + 1)

\* grouped.map: a video break with a resource is a link and nothing else,
\* every other item a numbered card with its children below
renderGrouped(gs) ==
    [g \in 1..Len(gs) |->
        IF gs[g].isVideoBreak /\ gs[g].videoResource # Absent
        THEN [kind |-> "link", href |-> gs[g].videoResource[1].url, text |-> gs[g].point]
        ELSE [kind |-> "card", number |-> g, text |-> gs[g].point,
              children |-> gs[g].children]]

\* the blocks SessionContentDisplay renders; reading .length of a missing
\* coreTopics throws
SessionContentDisplay(s) ==
    IF s.coreTopics = Absent THEN [kind |-> "fault"]
    ELSE [kind |-> "display",
          description |-> Truthy(s.description),
          coreTopics |-> Len(s.coreTopics[1]) > 0,
          points |-> IF Len(discussionPoints(s)) > 0
                     THEN renderGrouped(groupFrom(s, discussionPoints(s), 1))
                     ELSE <<>>,
          introspections |-> s.introspections # Absent /\ Len(s.introspections[1]) > 0,
          resources |-> s.resources # Absent /\ Len(s.resources[1]) > 0,
          articles |-> s.hasContent /\ Len(s.articles) > 0,
          emptyState |-> IF ~s.hasContent /\ Len(s.articles) = 0 /\ Truthy(s.emptyReason)
                         THEN Some(s.emptyReason[1])
                         ELSE Absent]

\* what renderItem returns for a visible item; item.topics.map throws when
\* the topics are missing
renderItemBody(s, item) ==
    CASE item.kind = "description" -> [kind |-> "quote", text |-> item.text]
      [] item.kind = "coreTopics" ->
            IF item.topics = Absent THEN [kind |-> "fault"]
            ELSE [kind |-> "topics", topics |-> item.topics[1]]
      [] item.kind = "discussionPoint" ->
            IF isVideoBreak(item.text) /\ videoResource(s, item.text) # Absent
            THEN [kind |-> "link", href |-> videoResource(s, item.text)[1].url,
                  text |-> item.text]
            ELSE [kind |-> "text", number |-> item.index + 1, text |-> item.text]
      [] item.kind = "introspection" -> [kind |-> "introspection", data |-> item.data]
      [] item.kind = "resources" -> [kind |-> "resources", data |-> item.data]
      [] item.kind = "articles" ->
            IF s.hasContent THEN [kind |-> "articleLinks", ids |-> s.articles]
            ELSE [kind |-> "emptyState",
                  reason |-> IF Truthy(s.emptyReason) THEN s.emptyReason ELSE Absent]

InitDisplay ==
    /\ UiIdle
    /\ BurstIdle
    /\ DisplayIdle
    /\ session \in DisplayUniverse
    /\ revealItems = <<>>
    /\ pc = "start"

\* the session is rendered: by a SessionCard with every item revealed, and
\* by SessionContentDisplay
Display ==
    /\ pc = "start"
    /\ revealItems' = buildRevealItems(session)
    /\ cardView' = [i \in 1..Len(buildRevealItems(session)) |->
                        renderItemBody(session, buildRevealItems(session)[i])]
    /\ grouped' = groupFrom(session, discussionPoints(session), 1)
    /\ displayView' = SessionContentDisplay(session)
    /\ pc' = "displayed"
    /\ UNCHANGED <<session, uiVars, burstVars>>

NextDisplay == Display

SpecDisplay == InitDisplay /\ [][NextDisplay]_vars

----------------------------------------------------------------------------
(* Spec: claims about the session cards and the drill-down navigator       *)

\* The step is the handling of input event <<op, arg>>: every action but
\* TimerFires records its event in last, and TimerFires alone changes scrolls.
Handled(op, arg) == scrolls' = scrolls /\ last'.op = op /\ last'.arg = arg

\* the step performs advance on card id
Advances(id) ==
    \/ Handled("clickContent", id)
    \/ Handled("clickNext", id)
    \/ id \in listeners /\ (Handled("keydown", "ArrowRight") \/ Handled("keydown", " "))

\* the step performs retreat on card id
Retreats(id) ==
    \/ Handled("clickBack", id)
    \/ id \in listeners /\ Handled("keydown", "ArrowLeft")

C4_RevealAllThenReset ==
    /\ [][\A id \in DOMAIN step :
            Handled("clickShowAll", id) => step'[id] = totalSteps(id)]_vars
    /\ [](\A id \in DOMAIN step :
            last.op = "toggleSession" /\ last.arg = id /\ last.prev = "clickShowAll"
                /\ id \notin expandedSessions
            => step[id] = 0)

\* a card of three items was at step 0, Show all took it to 3 and the
\* collapse that followed reset it to 0
C4_Witness ==
    /\ last.op = "toggleSession" /\ last.prev = "clickShowAll"
    /\ last.arg \in DOMAIN step
    /\ last.arg \notin expandedSessions
    /\ totalSteps(last.arg) = 3
    /\ last.from[last.arg] = 3
    /\ step[last.arg] = 0

\* C5: whenever a card goes from expanded to collapsed its step is reset to
\* 0; every collapsed card has step = 0, and every expansion starts from
\* step = 0 with nothing revealed.
C5_CollapseResets ==
    /\ [][\A id \in (DOMAIN step) \cap (DOMAIN step') :
            (id \in expandedSessions) # (id \in expandedSessions') => step'[id] = 0]_vars
    /\ [](\A id \in DOMAIN step : id \notin expandedSessions => step[id] = 0)
    /\ [](\A id \in DOMAIN step :
            last.op = "toggleSession" /\ last.arg = id /\ id \in expandedSessions
            => \A idx \in 0..(totalSteps(id) - 1) : renderItem(idx, step[id]) = "invisible")

\* a card expanded at step 2 has been collapsed and is at step 0, while the
\* other card stays expanded at step 1
C5_Witness ==
    /\ last.op = "toggleSession"
    /\ last.arg \in DOMAIN step
    /\ last.arg \notin expandedSessions
    /\ last.from[last.arg] = 2
    /\ step[last.arg] = 0
    /\ \E other \in (DOMAIN step) \cap expandedSessions : step[other] = 1

\* C6: on an expanded card at step k, item i (0-based) is invisible iff
\* i >= k, visible and dimmed ("past") iff i < k - 1, visible and emphasized
\* ("current") iff i = k - 1; at k = 0 every item is invisible and for k >= 1
\* exactly one item is current.
C6_ThreeTiers ==
    \A id \in (DOMAIN step) \cap expandedSessions :
        LET k == step[id]
            positions == 0..(totalSteps(id) - 1)
        IN  /\ \A i \in positions :
                /\ renderItem(i, k) = "invisible" <=> i >= k
                /\ renderItem(i, k) = "dimmed"    <=> i < k - 1
                /\ renderItem(i, k) = "current"   <=> i = k - 1
            /\ k = 0 => \A i \in positions : renderItem(i, k) = "invisible"
            /\ k >= 1 => Cardinality({i \in positions : renderItem(i, k) = "current"}) = 1

\* an expanded card of three items at step 2: item 0 is dimmed, item 1 is
\* current, item 2 is invisible
C6_Witness ==
    \E id \in (DOMAIN step) \cap expandedSessions :
        /\ totalSteps(id) = 3
        /\ step[id] = 2
        /\ renderItem(0, 2) = "dimmed"
        /\ renderItem(1, 2) = "current"
        /\ renderItem(2, 2) = "invisible"

\* C10: the navigator is in the grid view whenever an instance is mounted,
\* and a click on a cell of the grid view opens the cell's section, for every
\* section of the fixed set.
C10_StartsInGridAndOpens ==
    /\ [][/\ (activeSection = "unmounted" /\ activeSection' # "unmounted")
                => activeSection' = "grid"
           /\ \A idx \in 1..Len(GRID_CELLS) :
                Handled("openSection", GRID_CELLS[idx].label) =>
                    /\ activeSection = "grid"
                    /\ activeSection' = GRID_CELLS[idx].cluster
                    /\ activeSection' \in Clusters]_vars
    /\ [](activeSection = "grid" =>
            \A c \in Clusters :
                \E idx \in 1..Len(GRID_CELLS) : openSection(GRID_CELLS[idx].cluster) = c)

\* a section was opened, a filter change unmounted the navigator, another
\* mounted it again in the grid view, and the Network cell then opened network
C10_Witness ==
    /\ last.op = "openSection" /\ last.arg = "Network" /\ last.prev = "setFilter"
    /\ transitions = 2
    /\ activeSection = "network"

\* C11: back from any non-grid section yields the grid view, and the
\* handler's assignment applied on the grid view leaves the grid view.
C11_BackToGrid ==
    /\ [][Handled("goBackToGrid", "") =>
            (activeSection \in Clusters /\ activeSection' = "grid")]_vars
    /\ [](activeSection = "grid" => goBackToGrid = "grid")

\* two sections were opened and left again: the second back click has
\* returned the navigator to the grid view
C11_Witness ==
    /\ last.op = "goBackToGrid" /\ last.prev = "openSection"
    /\ transitions = 2
    /\ activeSection = "grid"

\* C12: the navigator has one level of depth: a cell is clicked only on the
\* grid view, and every change of the section of a mounted navigator is grid
\* -> section or section -> grid, never section -> another section.
C12_OneLevel ==
    [][/\ \A idx \in 1..Len(GRID_CELLS) :
            Handled("openSection", GRID_CELLS[idx].label) => activeSection = "grid"
       /\ (/\ activeSection \in CognizanceSection
           /\ activeSection' \in CognizanceSection
           /\ activeSection' # activeSection)
          => \/ activeSection = "grid" /\ activeSection' \in Clusters
             \/ activeSection \in Clusters /\ activeSection' = "grid"]_vars

\* the Budget section was opened from the grid and a filter change that keeps
\* the navigator mounted left it there
C12_Witness ==
    /\ last.op = "setFilter" /\ last.arg = "Cognizance" /\ last.prev = "openSection"
    /\ activeSection = "budget"
    /\ transitions = 1

\* C13 as stated: every transition causes exactly one scroll-into-view
\* request, never zero and never more than one, whatever happens around it: a
\* transition has scrolled once or its request is still pending.
C13_Original == scrolls + timers = transitions

\* C13 amended: every transition schedules exactly one scroll request;
\* a request fires at most once, and a scheduled request is lost only when
\* the navigator is unmounted before its timeout expires.
C13_ScrollUnlessUnmounted ==
    /\ [](scrolls + timers <= transitions)
    /\ [][/\ transitions' # transitions =>
                (transitions' = transitions + 1 /\ timers' = timers + 1 /\ scrolls' = scrolls)
          /\ scrolls' # scrolls => (scrolls' = scrolls + 1 /\ timers' = timers - 1)
          /\ scrolls' + timers' < scrolls + timers =>
                (activeSection # "unmounted" /\ activeSection' = "unmounted")]_vars

\* two transitions were made: the request of one has fired, the request of
\* the other was dropped by a filter change that unmounted the navigator
C13_Witness ==
    /\ transitions = 2
    /\ scrolls = 1
    /\ timers = 0

\* C14: a card's keydown handler is attached exactly while the card is
\* mounted and expanded, and no key press changes the step of a collapsed
\* card.
C14_ListenerScope ==
    /\ [](listeners = (DOMAIN step) \cap expandedSessions)
    /\ [][\A id \in (DOMAIN step) \cap (DOMAIN step') :
            (scrolls' = scrolls /\ last'.op = "keydown" /\ id \notin expandedSessions)
            => step'[id] = step[id]]_vars

\* a card was collapsed and ArrowRight then pressed: the collapsed card stays
\* at 0 without a handler, the expanded card has moved from 1 to 2
C14_Witness ==
    /\ last.op = "keydown" /\ last.arg = "ArrowRight" /\ last.prev = "toggleSession"
    /\ \E id \in (DOMAIN step) \ expandedSessions : id \notin listeners /\ step[id] = 0
    /\ \E id \in listeners : last.from[id] = 1 /\ step[id] = 2

\* C15 as stated: a single input event changes the step of at most one
\* session card.
C15_Original ==
    [][Cardinality({id \in (DOMAIN step) \cap (DOMAIN step') : step'[id] # step[id]}) <= 1]_vars

\* C17: on an expanded card ArrowRight and Space perform advance, ArrowLeft
\* performs retreat, every other key leaves step unchanged.
C17_KeyMap ==
    [][\A id \in (DOMAIN step) \cap expandedSessions :
        \A key \in Keys :
            Handled("keydown", key) =>
                step'[id] =
                    CASE key = "ArrowRight" \/ key = " " ->
                            (IF step[id] < totalSteps(id) THEN step[id] + 1 ELSE step[id])
                      [] key = "ArrowLeft" ->
                            (IF step[id] > 0 THEN step[id] - 1 ELSE step[id])
                      [] OTHER -> step[id]]_vars

\* Enter was pressed on an expanded card at step 2, which stays at step 2
C17_Witness ==
    /\ last.op = "keydown" /\ last.arg = "Enter"
    /\ \E id \in (DOMAIN step) \cap expandedSessions :
            id \in listeners /\ last.from[id] = 2 /\ step[id] = 2

\* C16 as stated: for any burst of advance or retreat inputs by pointer and
\* keyboard, inputs handled before the card has re-rendered included, no
\* card's step exceeds its totalSteps or drops below 0.
C16_Original ==
    \A id \in DOMAIN renderedStep : 0 <= step[id] /\ step[id] <= totalSteps(id)

C22_ClosedSet ==
    /\ [](/\ \A idx \in 1..Len(GRID_CELLS) : GRID_CELLS[idx].cluster \in Clusters
          /\ \A c \in Clusters : \E idx \in 1..Len(GRID_CELLS) : GRID_CELLS[idx].cluster = c
          /\ "grid" \notin Clusters)
    /\ [][\A idx \in 1..Len(GRID_CELLS) :
            Handled("openSection", GRID_CELLS[idx].label) =>
                (activeSection' = GRID_CELLS[idx].cluster /\ activeSection' \in Clusters)]_vars

\* the Mistakes cell, one of six cells of next6, has opened that section
C22_Witness ==
    /\ last.op = "openSection" /\ last.arg = "Mistakes"
    /\ activeSection = "next6"
    /\ transitions = 1

C26_NoDeadEnd ==
    /\ [](activeSection \in Clusters =>
            /\ "breadcrumb" \in backControls(activeSection, sessions)
            /\ transitions < MaxTransitions => ENABLED ClickBackToGrid)
    /\ [][Handled("goBackToGrid", "") =>
            (backControls(activeSection, sessions) # {} /\ activeSection' = "grid")]_vars

\* the Politics section is open, no politics session is loaded and the body
\* with its button is not rendered: the breadcrumb is the one back control
C26_Witness ==
    /\ activeSection = "politics"
    /\ ~sectionBodyRendered("politics", sessions)
    /\ backControls(activeSection, sessions) = {"breadcrumb"}
    /\ ENABLED ClickBackToGrid

C30_ProgressLostWhenHidden ==
    [][/\ \A cat \in Filters :
            Handled("setFilter", cat) => expandedSessions' = expandedSessions
       /\ \A id \in (DOMAIN step') \ (DOMAIN step) : step'[id] = 0
       /\ \A id \in expandedSessions \cap ((DOMAIN step) \ (DOMAIN step')) :
            id \in expandedSessions']_vars

\* after two filter changes in a row an expanded card that the first one had
\* removed from view is shown again: still expanded, listening, at step 0
C30_Witness ==
    /\ last.op = "setFilter" /\ last.prev = "setFilter"
    /\ \E id \in expandedSessions \cap (DOMAIN step) :
            /\ id \notin DOMAIN last.from
            /\ id \in listeners
            /\ step[id] = 0

----------------------------------------------------------------------------
(* SpecBuild: claims about buildRevealItems                                *)

OptLen(opt) == IF opt = Absent THEN 0 ELSE Len(opt[1])

ItemsOfKind(items, k) == SelectSeq(items, LAMBDA it : it.kind = k)

KindRank(k) ==
    CASE k = "description"     -> 1
      [] k = "coreTopics"      -> 2
      [] k = "discussionPoint" -> 3
      [] k = "introspection"   -> 4
      [] k = "resources"       -> 5
      [] k = "articles"        -> 6

\* C7: buildRevealItems emits its items in the fixed order description (if
\* the session has one), coreTopics, one discussionPoint per discussion point
\* in source order, one introspection per introspection block in source
\* order, a single resources item bundling all entries (omitted when there
\* are none), a single articles marker (only when the session has an
\* article); no kind appears out of this order.
C7_FixedOrder ==
    pc = "built" =>
        LET dps  == ItemsOfKind(revealItems, "discussionPoint")
            its  == ItemsOfKind(revealItems, "introspection")
            res  == ItemsOfKind(revealItems, "resources")
        IN  /\ \A i, j \in 1..Len(revealItems) :
                i < j => KindRank(revealItems[i].kind) <= KindRank(revealItems[j].kind)
            /\ Len(ItemsOfKind(revealItems, "description"))
                 = (IF Truthy(session.description) THEN 1 ELSE 0)
            /\ Len(ItemsOfKind(revealItems, "coreTopics")) = 1
            /\ Len(dps) = OptLen(session.discussionPoints)
            /\ \A i \in 1..Len(dps) : dps[i].text = session.discussionPoints[1][i]
            /\ Len(its) = OptLen(session.introspections)
            /\ \A i \in 1..Len(its) : its[i].data = session.introspections[1][i]
            /\ Len(res) = (IF OptLen(session.resources) > 0 THEN 1 ELSE 0)
            /\ \A i \in 1..Len(res) : res[i].data = session.resources[1]
            /\ Len(ItemsOfKind(revealItems, "articles"))
                 = (IF Len(session.articles) > 0 THEN 1 ELSE 0)

\* a session with every kind of content, two different discussion points and
\* two different introspections has been sequenced
C7_Witness ==
    /\ pc = "built"
    /\ Truthy(session.description)
    /\ session.discussionPoints = Some(<<VideoBreakClip, PointA>>)
    /\ session.introspections = Some(<<IntroB, IntroA>>)
    /\ OptLen(session.resources) > 0
    /\ Len(session.articles) > 0
    /\ Len(revealItems) = 8

\* C8: the length of the sequence is (description ? 1 : 0) + 1 + number of
\* discussion points + number of introspections + (resources non-empty ? 1
\* : 0) + (articles non-empty ? 1 : 0); a missing optional field counts as
\* zero items.  A description counts when it is a non-empty string, which is
\* what `description ? 1 : 0` evaluates.
C8_Length ==
    pc = "built" =>
        Len(revealItems)
          = (IF session.description # Absent /\ session.description[1] # <<>> THEN 1 ELSE 0)
            + 1
            + (IF session.discussionPoints = Absent THEN 0 ELSE Len(session.discussionPoints[1]))
            + (IF session.introspections = Absent THEN 0 ELSE Len(session.introspections[1]))
            + (IF session.resources # Absent /\ session.resources[1] # <<>> THEN 1 ELSE 0)
            + (IF session.articles # <<>> THEN 1 ELSE 0)

\* a session with all four optional fields missing has been sequenced
C8_Witness ==
    /\ pc = "built"
    /\ session.description = Absent
    /\ session.discussionPoints = Absent
    /\ session.introspections = Absent
    /\ session.resources = Absent
    /\ Len(revealItems) = 1 + Len(session.articles)

HasCoreTopicsItem == \E i \in 1..Len(revealItems) : revealItems[i].kind = "coreTopics"

\* C9 as stated: the coreTopics item is emitted even when the topic list is
\* empty, and is omitted only when the topic field is entirely absent.
C9_Original ==
    pc = "built" => (HasCoreTopicsItem <=> session.coreTopics # Absent)

\* C9 amended: the coreTopics item is emitted for every session, when the
\* topic list is empty and also when the topic field is absent; it carries
\* the session's coreTopics value and is never omitted.
C9_AlwaysEmitted ==
    pc = "built" =>
        \E i \in 1..Len(revealItems) :
            /\ revealItems[i].kind = "coreTopics"
            /\ revealItems[i].topics = session.coreTopics

\* a session without the coreTopics field has been sequenced and has the item
C9_Witness ==
    /\ pc = "built"
    /\ session.coreTopics = Absent
    /\ HasCoreTopicsItem

\* C23: every discussion point is its own discussionPoint item: the k-th
\* point (0-based) yields an item with its text, index k and total the number
\* of points, so the indices are 0..total-1 in increasing order.
C23_PointItems ==
    pc = "built" =>
        LET dps == IF session.discussionPoints = Absent THEN <<>> ELSE session.discussionPoints[1]
            its == ItemsOfKind(revealItems, "discussionPoint")
        IN  /\ Len(its) = Len(dps)
            /\ \A k \in 1..Len(its) :
                    /\ its[k].text = dps[k]
                    /\ its[k].index = k - 1
                    /\ its[k].total = Len(dps)

\* two points, a plain one and a numbered one, gave two items with the
\* indices 0 and 1 and the total 2, after the description and the topics
C23_Witness ==
    /\ pc = "built"
    /\ session.discussionPoints = Some(<<PointA, SubOne>>)
    /\ Len(revealItems) >= 4
    /\ revealItems[3] = [kind |-> "discussionPoint", text |-> PointA, index |-> 0, total |-> 2]
    /\ revealItems[4] = [kind |-> "discussionPoint", text |-> SubOne, index |-> 1, total |-> 2]

----------------------------------------------------------------------------
(* SpecDisplay: claims about the rendering of a session                    *)

\* indices of the points after top-level point i up to the next top-level one
FollowersOf(dps, tops, i) ==
    {j \in (i + 1)..Len(dps) : \A k \in (i + 1)..j : k \notin tops}

\* the grouping that makes exactly the points at the indices `tops` top-level
\* items, each with the points after it up to the next top-level item as its
\* children, number prefix removed
GroupingWithTops(dps, tops) ==
    LET idx == SelectSeq([i \in 1..Len(dps) |-> i], LAMBDA i : i \in tops)
    IN  [g \in 1..Len(idx) |->
            [point |-> dps[idx[g]],
             children |-> [k \in 1..Cardinality(FollowersOf(dps, tops, idx[g])) |->
                              stripNumber(dps[idx[g] + k])]]]

PointsAndChildren(gs) ==
    [g \in 1..Len(gs) |-> [point |-> gs[g].point, children |-> gs[g].children]]

\* C18 as stated: every numbered point is a child of the nearest preceding
\* point that is not numbered and never a top-level item: the top-level items
\* are exactly the points that are not numbered.
C18_Original ==
    pc = "displayed" =>
        LET dps == discussionPoints(session)
        IN  PointsAndChildren(grouped) =
                GroupingWithTops(dps, {i \in 1..Len(dps) : ~isNumbered(dps[i])})

\* C18 amended: the first point of the list is a top-level item also when it
\* is numbered; every other numbered point is a child of the nearest
\* preceding top-level item, every point that is not numbered is top-level;
\* Point A, 1. Sub one, 2. Sub two, Point B gives Point A with the children
\* Sub one and Sub two, and Point B without children.
C18_Grouping ==
    pc = "displayed" =>
        LET dps == discussionPoints(session)
        IN  /\ PointsAndChildren(grouped) =
                GroupingWithTops(dps, {i \in 1..Len(dps) : i = 1 \/ ~isNumbered(dps[i])})
            /\ dps = <<PointA, SubOne, SubTwo, PointB>> =>
                PointsAndChildren(grouped) =
                    << [point |-> <<"Point A">>, children |-> << <<"Sub one">>, <<"Sub two">> >>],
                       [point |-> <<"Point B">>, children |-> <<>>] >>

\* a list that starts with a numbered point was grouped: 1. Sub one is a
\* top-level item with the child Sub two, Point A follows with the child
\* Sub one
C18_Witness ==
    /\ pc = "displayed"
    /\ discussionPoints(session) = <<SubOne, SubTwo, PointA, SubOne>>
    /\ PointsAndChildren(grouped) =
            << [point |-> SubOne, children |-> << <<"Sub two">> >>],
               [point |-> PointA, children |-> << <<"Sub one">> >>] >>

\* the session has a resource whose title is the text without its first
\* "Video Break: ", the marker and the one space after it
TitleMatches(s, text) ==
    /\ s.resources # Absent
    /\ \E r \in 1..Len(s.resources[1]) :
            s.resources[1][r].title = replace(text, <<"Video Break:", " ">>, <<>>)

\* C19 as stated: a point that begins with the marker Video Break: is a link
\* exactly when a resource's title equals the text with the prefix
\* "Video Break:" stripped, and a plain text item otherwise.
C19_Original ==
    pc = "displayed" =>
        \A i \in 1..Len(revealItems) :
            (revealItems[i].kind = "discussionPoint" /\ isVideoBreak(revealItems[i].text)) =>
                (cardView[i].kind = "link" <=>
                    /\ session.resources # Absent
                    /\ \E r \in 1..Len(session.resources[1]) :
                            session.resources[1][r].title =
                                SubSeq(revealItems[i].text, 2, Len(revealItems[i].text)))

\* C19 amended: every discussion point is one discussionPoint item of the
\* sequence, marker or not; a point that begins with Video Break: is shown as
\* a link to a resource's url exactly when a resource's title equals the text
\* with its first "Video Break: " (the marker and one space) removed, and as
\* plain text otherwise, in the card and in SessionContentDisplay alike.
C19_VideoBreakLink ==
    pc = "displayed" =>
        /\ [i \in 1..Len(ItemsOfKind(revealItems, "discussionPoint")) |->
                ItemsOfKind(revealItems, "discussionPoint")[i].text] = discussionPoints(session)
        /\ \A i \in 1..Len(revealItems) :
            revealItems[i].kind = "discussionPoint" =>
                LET text == revealItems[i].text
                IN  IF isVideoBreak(text) /\ TitleMatches(session, text)
                    THEN /\ cardView[i].kind = "link" /\ cardView[i].text = text
                         /\ \E r \in 1..Len(session.resources[1]) :
                                cardView[i].href = session.resources[1][r].url
                    ELSE cardView[i].kind = "text" /\ cardView[i].text = text
        /\ \A g \in 1..Len(grouped) :
                displayView.points[g].kind = "link" <=>
                    (isVideoBreak(grouped[g].point) /\ TitleMatches(session, grouped[g].point))

\* a card shows Video Break: Clip as a link to the Clip resource, the second
\* of the session's resources, and Video Break:Clip as plain text
C19_Witness ==
    /\ pc = "displayed"
    /\ discussionPoints(session) = <<VideoBreakClip, PointA, VideoBreakNoSpace>>
    /\ session.resources = Some(<<ResourceOther, ResourceClip>>)
    /\ session.articles = <<>>
    /\ cardView[2] = [kind |-> "link", href |-> "https://clip", text |-> VideoBreakClip]
    /\ cardView[4].kind = "text"
    /\ displayView.points[1].kind = "link"

\* C20 as stated: a session with hasContent = false and no related articles
\* is shown with an informational empty state, with emptyReason when given,
\* and without a fault, in the fully revealed card and in the detail display.
C20_Original ==
    (pc = "displayed" /\ ~session.hasContent /\ Len(session.articles) = 0) =>
        /\ \A i \in 1..Len(cardView) : cardView[i].kind # "fault"
        /\ \E i \in 1..Len(cardView) :
            /\ cardView[i].kind = "emptyState"
            /\ Truthy(session.emptyReason) => cardView[i].reason = session.emptyReason
        /\ displayView.kind = "display"
        /\ displayView.emptyState # Absent
        /\ Truthy(session.emptyReason) => displayView.emptyState = session.emptyReason

RECURSIVE RenderedTexts(_)
\* the texts the rendered discussion-point list shows, top to bottom
RenderedTexts(points) ==
    IF points = <<>> THEN <<>>
    ELSE (IF Head(points).kind = "link" THEN <<Head(points).text>>
          ELSE <<Head(points).text>> \o Head(points).children)
         \o RenderedTexts(Tail(points))

\* C27 as stated: every discussion point of the list is rendered exactly
\* once, as a top-level item or as a child, in source order: none is dropped,
\* none is duplicated.
C27_Original ==
    (pc = "displayed" /\ displayView.kind = "display") =>
        LET dps == discussionPoints(session)
            shown == RenderedTexts(displayView.points)
        IN  /\ Len(shown) = Len(dps)
            /\ \A i \in 1..Len(dps) : shown[i] = dps[i] \/ shown[i] = stripNumber(dps[i])

----------------------------------------------------------------------------
(* SpecList: claims about the list of session cards                        *)

\* C29 as stated: the session cards shown are exactly the loaded sessions
\* that are not Cognizance and match the filter, each once, and the grid is
\* shown iff the filter is All or Cognizance and a Cognizance session exists.
C29_Original ==
    ~loading =>
        LET expected == SelectSeq(sessions, LAMBDA s :
                            s.fourC # "Cognizance" /\ (filter = "All" \/ s.fourC = filter))
            cards == sessionCards(sessions, filter)
        IN  /\ Len(cards) = Len(expected)
            /\ \A i \in 1..Len(expected) :
                    Cardinality({j \in 1..Len(cards) : cards[j] = expected[i]}) = 1
            /\ DOMAIN step = {expected[i].id : i \in 1..Len(expected)}
            /\ (activeSection # "unmounted") <=>
                    (/\ filter \in {"All", "Cognizance"}
                     /\ \E i \in 1..Len(sessions) : sessions[i].fourC = "Cognizance")

====
